---- MODULE Spec2Model ----
(***************************************************************************)
(* State-machine model of src/main.py (CheckIntAPI): the /merge_images     *)
(* pipeline (composite -> submit-asset -> submit-job -> completion watcher *)
(* -> FTP publish) and the /final_image route.                             *)
(*                                                                         *)
(* Every inbound request r runs merge_images as a sequence of steps, one   *)
(* per external call or blocking point; the steps of different requests    *)
(* interleave.  Outcomes of the external collaborators (ComfyUI HTTP       *)
(* calls, websocket frames, FTP, the filesystem) are drawn from small      *)
(* sets.                                                                   *)
(***************************************************************************)
EXTENDS Integers, Sequences, FiniteSets, TLC

\* ---------------------------------------------------------------- bounds
MaxFrames == 2      \* frames the generation service emits per request
MaxInbox == 1       \* frames buffered on one websocket connection
MaxClock == 1       \* distinct readings of the microsecond clock, minus one

\* ------------------------------------------------------------ universes
Reqs == {1, 2}                      \* inbound request identities
Solo == {1}                         \* the request of a one-request run
PromptIds == {"p1", "p2"}           \* job ids the service can assign
OutNames == {"out_a.png", "out_b.png"}   \* service-assigned output names
None == "<None>"                    \* Python None

\* ------------------------------------------------------- Python helpers
\* Truthiness of an optional string / bytes value.
Truthy(v) == v # None /\ v # ""

\* A parsed JSON response of the generation service, or None.
NoneResponse == [kind |-> "None", keys |-> {}, name |-> "", prompt_id |-> ""]
DictResponse(ks, n, p) == [kind |-> "dict", keys |-> ks, name |-> n, prompt_id |-> p]
\* response.json() of a body that is not a JSON object: a list, a number
\* or a string.
JsonValue(kind, v) ==
    [kind |-> kind, keys |-> {}, name |-> "", prompt_id |-> "", value |-> v]
\* `not response`: None, the empty dict, the empty list, 0 and the empty
\* string are falsy.
TruthyResponse(resp) ==
    CASE resp.kind = "None" -> FALSE
      [] resp.kind = "dict" -> resp.keys # {}
      [] resp.kind = "list" -> resp.value # <<>>
      [] resp.kind = "int" -> resp.value # 0
      [] resp.kind = "str" -> resp.value # ""
\* `k in text` for two strings: k occurs in text.
Substring(k, text) ==
    \E i \in 1..Len(text) :
        i + Len(k) - 1 <= Len(text) /\ SubSeq(text, i, i + Len(k) - 1) = k
\* `k in response` for a value on which `in` is defined: a key of a dict,
\* an element of a list, a substring of a string.
Has(resp, k) ==
    CASE resp.kind = "dict" -> k \in resp.keys
      [] resp.kind = "list" -> \E i \in DOMAIN resp.value : resp.value[i] = k
      [] resp.kind = "str" -> Substring(k, resp.value)
      [] OTHER -> FALSE
\* `k in response` raises TypeError on a number.
InRaises(resp) == resp.kind = "int"
\* response[k] with a string k raises TypeError on anything but a dict.
GetItemRaises(resp) == resp.kind # "dict"
TypeErrorMessage(resp) ==
    CASE resp.kind = "int" -> "argument of type 'int' is not iterable"
      [] resp.kind = "list" -> "list indices must be integers or slices, not str"
      [] resp.kind = "str" -> "string indices must be integers, not 'str'"
\* Bodies of the service that are JSON, but not objects.
OtherJson ==
    { JsonValue("list", <<"name">>), JsonValue("list", <<"prompt_id">>),
      JsonValue("int", 5), JsonValue("str", "name") }

\* A directory: file name -> [content, writes]; writes counts how often the
\* running program opened the file for writing.
EmptyDir == [n \in {} |-> [content |-> "", writes |-> 0]]
WriteFile(d, name, content) ==
    [n \in DOMAIN d \cup {name} |->
        IF n = name
        THEN [content |-> content,
              writes |-> IF name \in DOMAIN d THEN d[name].writes + 1 ELSE 1]
        ELSE d[n]]

\* The content of an existing file is replaced; opening it is counted by
\* WriteFile, not here.
StoreContent(d, name, content) == [d EXCEPT ![name].content = content]

\* jsonify(body), status
Resp(status, body) == [status |-> status, body |-> body]
NoResp == Resp(0, [pending |-> "true"])

NoCalls == [upload_image_to_comfyui |-> 0, queue_prompt |-> 0,
            create_connection |-> 0, get_image_from_comfyui |-> 0,
            upload_final_image_to_ftp |-> 0]

\* ------------------------------------------------------------ variables
VARIABLES
    FTP_HOST, FTP_USER, FTP_PASS, FTP_TARGET_DIR, BASE_PUBLIC_URL,
    clock,          \* datetime.datetime.now(), in microseconds
    nextUuid,       \* source of uuid.uuid4()
    pc,             \* position of each request in merge_images
    files,          \* request.files of each request
    timestamp,      \* merge_images: timestamp
    upload_response,\* merge_images: upload_response
    queue_response, \* merge_images: queue_response
    client_id,      \* merge_images: client_id
    ws,             \* watcher connection: state, clientId of its URL, awaited job
    inbox,          \* frames delivered on the connection, not yet received
    emitted,        \* frames the service has emitted for the request
    received,       \* frames ws.recv() has returned
    image_content,  \* watcher: result of the last get_image_from_comfyui
    fetched,        \* output names requested from /view, in order
    watcher,        \* how the watcher is leaving its try block: nothing yet,
                    \* a return value, or an exception on its way out
    final_filename, \* merge_images: final_filename
    ftp,            \* FTP control connection of the request: "none",
                    \* "refused" (nothing connected), "connected" (connected,
                    \* login refused), "open" (logged in), "quit"
    publish,        \* (success, message) of upload_final_image_to_ftp, and
                    \* how far STOR got: "no" (not accepted), "partial" (file
                    \* created, transfer not acknowledged), "complete"
                    \* (transfer acknowledged by the server)
    transfer,       \* the STOR data transfer: what storbinary has read from
                    \* the local file and sent, what the server has received
    response,       \* the answer of merge_images
    raised,         \* message of the exception that reached the catch-all
    calls,          \* invocations of each external operation
    merged_images,  \* directory OUTPUT_DIR
    final_images,   \* directory FINAL_IMAGES_DIR
    remote,         \* FTP_TARGET_DIR on the remote server
    served          \* last answer of GET /final_image/<filename>

env == <<FTP_HOST, FTP_USER, FTP_PASS, FTP_TARGET_DIR, BASE_PUBLIC_URL>>
reqVars == <<pc, files, timestamp, upload_response, queue_response, client_id,
             final_filename, response, raised, calls>>
wsVars == <<ws, inbox, emitted, received, image_content, fetched, watcher>>
ftpVars == <<ftp, publish, transfer, remote>>
vars == <<env, clock, nextUuid, reqVars, wsVars, ftpVars,
          merged_images, final_images, served>>

\* ----------------------------------------------------------------- Init
NoFiles == [foreground_file |-> None, background_file |-> None]
NoWs == [state |-> "none", clientId |-> 0, prompt_id |-> None]
NoPublish == [success |-> FALSE, message |-> None, stored |-> "no"]
NoTransfer == [sent |-> "", received |-> ""]
NoExit == [exit |-> "none", value |-> None]
Returns(v) == [exit |-> "return", value |-> v]
Raises(msg) == [exit |-> "raise", value |-> msg]

\* src/main.py:22-26, os.makedirs(..., exist_ok=True): a missing directory
\* is created, an existing one is left as it is.  A file that an earlier
\* run of the program left behind; the running program has not opened it.
EarlierFile(content) == [content |-> content, writes |-> 0]
\* A composite of an earlier run.
EarlierMerged == [n \in {"merged_result_earlier.png"} |-> EarlierFile("composite")]
\* The directories of output images an earlier run can have left, locally
\* or on the FTP server: any of the output names, each with earlier bytes.
\* (Files of other names are never read or written by a request.)
Leftovers ==
    { [n \in names |-> EarlierFile("earlier:" \o n)] : names \in SUBSET OutNames }

Init ==
    /\ FTP_HOST \in {"", "ftp.example.org"}
    /\ FTP_USER \in {"", "user"}
    /\ FTP_PASS \in {"", "secret"}
    /\ FTP_TARGET_DIR \in {"", "/public"}
    /\ BASE_PUBLIC_URL \in {"", "https://example.org/img/"}
    /\ clock = 0
    /\ nextUuid = 1
    /\ pc = [r \in Reqs |-> "idle"]
    /\ files = [r \in Reqs |-> NoFiles]
    /\ timestamp = [r \in Reqs |-> None]
    /\ upload_response = [r \in Reqs |-> NoneResponse]
    /\ queue_response = [r \in Reqs |-> NoneResponse]
    /\ client_id = [r \in Reqs |-> 0]
    /\ ws = [r \in Reqs |-> NoWs]
    /\ inbox = [r \in Reqs |-> <<>>]
    /\ emitted = [r \in Reqs |-> 0]
    /\ received = [r \in Reqs |-> 0]
    /\ image_content = [r \in Reqs |-> None]
    /\ fetched = [r \in Reqs |-> <<>>]
    /\ watcher = [r \in Reqs |-> NoExit]
    /\ final_filename = [r \in Reqs |-> None]
    /\ ftp = [r \in Reqs |-> "none"]
    /\ publish = [r \in Reqs |-> NoPublish]
    /\ transfer = [r \in Reqs |-> NoTransfer]
    /\ response = [r \in Reqs |-> NoResp]
    /\ raised = [r \in Reqs |-> None]
    /\ calls = [r \in Reqs |-> NoCalls]
    /\ merged_images \in {EmptyDir, EarlierMerged}
    /\ final_images \in Leftovers
    /\ remote \in Leftovers
    /\ served = [filename |-> None, status |-> 0, content |-> None]

\* ------------------------------------------------------- shared effects
\* The request is answered: record the response and stop.
Answer(r, resp) ==
    /\ response' = [response EXCEPT ![r] = resp]
    /\ pc' = [pc EXCEPT ![r] = "done"]

\* A catch-all that hides the exception's message.
Mut_CatchAllResponse(msg) ==
    Resp(500, [error |-> "An internal server error occurred "])

\* src/main.py:251-258, the catch-all handler of merge_images.
CatchAllResponse(msg) ==
    Resp(500, [error |-> "An internal server error occurred ", details |-> msg])

CatchAll(r, msg) ==
    /\ raised' = [raised EXCEPT ![r] = msg]
    /\ Answer(r, CatchAllResponse(msg))

\* datetime.datetime.now() advances.  The clock is read at line 190 only,
\* so its advance shows only to a request that is about to read it.
Tick ==
    /\ clock < MaxClock
    /\ \E r \in Reqs : pc[r] = "save"
    /\ clock' = clock + 1
    /\ UNCHANGED <<env, nextUuid, reqVars, wsVars, ftpVars,
                   merged_images, final_images, served>>

\* ------------------------------------------------- merge_images, part 1
\* A POST /merge_images arrives; src/main.py:154-161 validate it.
UploadedFiles == {None, "", "photo.png"}     \* absent, empty name, named

\* A slip in the validation: only the foreground is looked at.
Mut_validate(fg, bg) ==
    IF fg = None
    THEN Resp(400, [error |-> "Missing one or both files in the request"])
    ELSE IF fg = ""
    THEN Resp(400, [error |-> "One or both files are not selected"])
    ELSE NoResp

\* src/main.py:154-161: the 400 answer, or NoResp when both files pass.
validate(fg, bg) ==
    IF fg = None \/ bg = None
    THEN Resp(400, [error |-> "Missing one or both files in the request"])
    ELSE IF fg = "" \/ bg = ""
    THEN Resp(400, [error |-> "One or both files are not selected"])
    ELSE NoResp

merge_images_validate(r) ==
    /\ pc[r] = "idle"
    /\ \E fg \in UploadedFiles, bg \in UploadedFiles :
        /\ files' = [files EXCEPT ![r] = [foreground_file |-> fg, background_file |-> bg]]
        /\ IF validate(fg, bg) # NoResp
           THEN Answer(r, validate(fg, bg))
           ELSE /\ pc' = [pc EXCEPT ![r] = "composite"]
                /\ UNCHANGED response
    /\ UNCHANGED <<env, clock, nextUuid, timestamp, upload_response, queue_response,
                   client_id, final_filename, raised, calls, wsVars, ftpVars,
                   merged_images, final_images, served>>

\* src/main.py:164-188: decode both images, remove the background, resize
\* and paste.  Any of these calls may raise.
merge_images_composite(r) ==
    /\ pc[r] = "composite"
    /\ \/ /\ pc' = [pc EXCEPT ![r] = "save"]
          /\ UNCHANGED <<response, raised>>
       \/ CatchAll(r, "cannot identify image file")
    /\ UNCHANGED <<env, clock, nextUuid, files, timestamp, upload_response,
                   queue_response, client_id, final_filename, calls, wsVars,
                   ftpVars, merged_images, final_images, served>>

\* strftime("%Y%m%d_%H%M%S%f") of the clock reading.
strftime(t) == "T" \o ToString(t)
merged_filename(r) == "merged_result_" \o timestamp[r] \o ".png"
output_prefix(r) == "checkint_" \o timestamp[r]

\* src/main.py:190-195: name the composite after the clock and save it.
merge_images_save(r) ==
    /\ pc[r] = "save"
    /\ timestamp' = [timestamp EXCEPT ![r] = strftime(clock)]
    /\ \/ /\ merged_images' = WriteFile(merged_images,
                                  "merged_result_" \o strftime(clock) \o ".png",
                                  "composite")
          /\ pc' = [pc EXCEPT ![r] = "upload"]
          /\ UNCHANGED <<response, raised>>
       \/ /\ CatchAll(r, "cannot write composite")
          /\ UNCHANGED merged_images
    /\ UNCHANGED <<env, clock, nextUuid, files, upload_response, queue_response,
                   client_id, final_filename, calls, wsVars, ftpVars,
                   final_images, served>>

\* What upload_image_to_comfyui can return: None on a transport error or a
\* missing file, else the parsed JSON body.
UploadResponses ==
    { NoneResponse,
      DictResponse({}, "", ""),
      DictResponse({"error"}, "", ""),
      DictResponse({"name"}, "asset.png", "") }
    \cup OtherJson

\* src/main.py:198, `not upload_response or 'name' not in upload_response`,
\* for a response on which the test does not raise.
upload_failed(resp) == ~TruthyResponse(resp) \/ ~Has(resp, "name")

\* src/main.py:197-203 with upload_image_to_comfyui (55-69).
upload_image_to_comfyui(r) ==
    /\ pc[r] = "upload"
    /\ calls' = [calls EXCEPT ![r].upload_image_to_comfyui = @ + 1]
    /\ \E resp \in UploadResponses :
        /\ upload_response' = [upload_response EXCEPT ![r] = resp]
        /\ IF TruthyResponse(resp) /\ InRaises(resp)
           THEN CatchAll(r, TypeErrorMessage(resp))
           ELSE IF upload_failed(resp)
           THEN /\ Answer(r, Resp(500, [error |-> "Failed to upload merge image to ComfyUI"]))
                /\ UNCHANGED raised
           ELSE IF GetItemRaises(resp)
           THEN CatchAll(r, TypeErrorMessage(resp))
           ELSE /\ pc' = [pc EXCEPT ![r] = "workflow"]
                /\ UNCHANGED <<response, raised>>
    /\ UNCHANGED <<env, clock, nextUuid, files, timestamp, queue_response, client_id,
                   final_filename, wsVars, ftpVars,
                   merged_images, final_images, served>>

\* src/main.py:205-211: load the workflow template and set its two slots;
\* a missing file or a missing node raises.
merge_images_load_workflow(r) ==
    /\ pc[r] = "workflow"
    /\ \/ /\ pc' = [pc EXCEPT ![r] = "queue"]
          /\ UNCHANGED <<response, raised>>
       \/ CatchAll(r, "No such file or directory: 'CheckInt.json'")
    /\ UNCHANGED <<env, clock, nextUuid, files, timestamp, upload_response,
                   queue_response, client_id, final_filename, calls, wsVars,
                   ftpVars, merged_images, final_images, served>>

\* What queue_prompt can return: None on a transport error, else the
\* parsed JSON body.
QueueResponses ==
    { NoneResponse,
      DictResponse({}, "", ""),
      DictResponse({"error"}, "", "") }
    \cup { DictResponse({"prompt_id"}, "", p) : p \in PromptIds }
    \cup OtherJson

\* A slip in the guard of the job stage: only `not queue_response`.
Mut_queue_failed(resp) == ~TruthyResponse(resp)

\* src/main.py:215, `not queue_response or 'prompt_id' not in queue_response`.
\* for a response on which the test does not raise.
queue_failed(resp) == ~TruthyResponse(resp) \/ ~Has(resp, "prompt_id")

\* A session id derived from the clock: equal for two requests that read
\* the same microsecond.
Mut_uuid4 == clock + 1

\* src/main.py:213, str(uuid.uuid4()): an id no earlier call returned.
uuid4 == nextUuid

\* src/main.py:213-220 with queue_prompt (41-53).
queue_prompt(r) ==
    /\ pc[r] = "queue"
    /\ client_id' = [client_id EXCEPT ![r] = uuid4]
    /\ nextUuid' = nextUuid + 1
    /\ calls' = [calls EXCEPT ![r].queue_prompt = @ + 1]
    /\ \E resp \in QueueResponses :
        /\ queue_response' = [queue_response EXCEPT ![r] = resp]
        /\ IF TruthyResponse(resp) /\ InRaises(resp)
           THEN CatchAll(r, TypeErrorMessage(resp))
           ELSE IF queue_failed(resp)
           THEN /\ Answer(r, Resp(500, [error |-> "Failed to queue prompt in ComfyUI"]))
                /\ UNCHANGED raised
           ELSE IF GetItemRaises(resp)
           THEN CatchAll(r, TypeErrorMessage(resp))
           ELSE /\ pc' = [pc EXCEPT ![r] = "connect"]
                /\ UNCHANGED <<response, raised>>
    /\ UNCHANGED <<env, clock, files, timestamp, upload_response,
                   final_filename, wsVars, ftpVars,
                   merged_images, final_images, served>>

\* --------------------------------------------------- completion watcher
\* A websocket frame as ws.recv() returns it: a bytes object (binary
\* frame) or a str; a str may or may not be JSON, and the JSON object may
\* or may not carry message['type'], message['data']['prompt_id'] and
\* message['data']['output']['images'].
Frame(text, js, ks, ty, pid, imgs) ==
    [text |-> text, json |-> js, keys |-> ks, type |-> ty,
     prompt_id |-> pid, images |-> imgs]

ImageLists == { <<>>, <<"out_a.png">>, <<"out_b.png", "out_a.png">> }

Frames ==
    { Frame(FALSE, FALSE, {}, "", None, <<>>),              \* binary preview
      Frame(TRUE, FALSE, {}, "", None, <<>>),               \* text, not JSON
      Frame(TRUE, TRUE, {}, "", None, <<>>),                \* JSON without 'type'
      Frame(TRUE, TRUE, {"type"}, "status", None, <<>>),    \* other type, no job id
      Frame(TRUE, TRUE, {"type"}, "executed", None, <<>>) } \* executed, no job id
    \cup { Frame(TRUE, TRUE, {"type", "prompt_id"}, "progress", p, <<>>) : p \in PromptIds }
    \cup { Frame(TRUE, TRUE, {"type", "prompt_id"}, "executed", p, <<>>) : p \in PromptIds }
    \cup { Frame(TRUE, TRUE, {"type", "prompt_id", "images"}, "executed", p, il) :
             p \in PromptIds, il \in ImageLists }

\* A watcher that does not compare the job id of an 'executed' event.
Mut_on_message_any_job(out, prompt_id) ==
    IF ~out.text THEN [do |-> "ignore", arg |-> None]
    ELSE IF ~out.json THEN [do |-> "raise", arg |-> "Expecting value: line 1 column 1 (char 0)"]
    ELSE IF "type" \notin out.keys THEN [do |-> "raise", arg |-> "'type'"]
    ELSE IF out.type # "executed" THEN [do |-> "ignore", arg |-> None]
    ELSE IF "prompt_id" \notin out.keys THEN [do |-> "raise", arg |-> "'data'"]
    ELSE IF "images" \notin out.keys THEN [do |-> "raise", arg |-> "'output'"]
    ELSE IF out.images = <<>> THEN [do |-> "empty", arg |-> None]
    ELSE [do |-> "fetch", arg |-> out.images[1]]

\* A watcher without the empty-list test: output_data[0] raises IndexError.
Mut_on_message_no_empty_test(out, prompt_id) ==
    IF ~out.text THEN [do |-> "ignore", arg |-> None]
    ELSE IF ~out.json THEN [do |-> "raise", arg |-> "Expecting value: line 1 column 1 (char 0)"]
    ELSE IF "type" \notin out.keys THEN [do |-> "raise", arg |-> "'type'"]
    ELSE IF out.type # "executed" THEN [do |-> "ignore", arg |-> None]
    ELSE IF "prompt_id" \notin out.keys THEN [do |-> "raise", arg |-> "'data'"]
    ELSE IF out.prompt_id # prompt_id THEN [do |-> "ignore", arg |-> None]
    ELSE IF "images" \notin out.keys THEN [do |-> "raise", arg |-> "'output'"]
    ELSE IF out.images = <<>> THEN [do |-> "raise", arg |-> "list index out of range"]
    ELSE [do |-> "fetch", arg |-> out.images[1]]

\* A watcher that takes the last image descriptor instead of the first.
Mut_on_message_last_image(out, prompt_id) ==
    IF ~out.text THEN [do |-> "ignore", arg |-> None]
    ELSE IF ~out.json THEN [do |-> "raise", arg |-> "Expecting value: line 1 column 1 (char 0)"]
    ELSE IF "type" \notin out.keys THEN [do |-> "raise", arg |-> "'type'"]
    ELSE IF out.type # "executed" THEN [do |-> "ignore", arg |-> None]
    ELSE IF "prompt_id" \notin out.keys THEN [do |-> "raise", arg |-> "'data'"]
    ELSE IF out.prompt_id # prompt_id THEN [do |-> "ignore", arg |-> None]
    ELSE IF "images" \notin out.keys THEN [do |-> "raise", arg |-> "'output'"]
    ELSE IF out.images = <<>> THEN [do |-> "empty", arg |-> None]
    ELSE [do |-> "fetch", arg |-> out.images[Len(out.images)]]

\* src/main.py:95-105, what one iteration of the receive loop does with the
\* frame `out` while waiting for prompt_id, in the order the code tests it.
\*   "ignore"  the loop goes on to the next recv
\*   "raise"   an exception leaves the loop
\*   "empty"   return None (no images in the output)
\*   "fetch"   get_image_from_comfyui is called for output_data[0]
on_message(out, prompt_id) ==
    IF ~out.text THEN [do |-> "ignore", arg |-> None]
    ELSE IF ~out.json THEN [do |-> "raise", arg |-> "Expecting value: line 1 column 1 (char 0)"]
    ELSE IF "type" \notin out.keys THEN [do |-> "raise", arg |-> "'type'"]
    ELSE IF out.type # "executed" THEN [do |-> "ignore", arg |-> None]
    ELSE IF "prompt_id" \notin out.keys THEN [do |-> "raise", arg |-> "'data'"]
    ELSE IF out.prompt_id # prompt_id THEN [do |-> "ignore", arg |-> None]
    ELSE IF "images" \notin out.keys THEN [do |-> "raise", arg |-> "'output'"]
    ELSE IF out.images = <<>> THEN [do |-> "empty", arg |-> None]
    ELSE [do |-> "fetch", arg |-> out.images[1]]

\* The bytes the generation service holds for an output name.
ServiceBytes(filename) == "bytes:" \o filename

\* src/main.py:71-84: the body of /view, an empty body, or None on a
\* transport error.
get_image_from_comfyui(filename) == {None, "", ServiceBytes(filename)}

\* A watcher that closes nothing: the connection stays open.
Mut_ws_close(r) ==
    /\ ws' = ws
    /\ inbox' = [inbox EXCEPT ![r] = <<>>]

\* src/main.py:121-122, the finally clause: the connection is closed and
\* whatever was buffered on it is gone.
ws_close(r) ==
    /\ ws' = [ws EXCEPT ![r].state = "closed"]
    /\ inbox' = [inbox EXCEPT ![r] = <<>>]

\* Positions of merge_images inside get_final_image_path_from_websocket,
\* after the connection is open: blocked in ws.recv(), in GET /view, in
\* open(), in f.write(), in ws.close().
WatcherPcs == {"recv", "view", "open", "write", "close"}

\* Positions inside upload_final_image_to_ftp: in FTP() (connect and
\* login), in cwd, in the STOR command, in the loop of the data transfer,
\* in the wait for the server's answer to it, in quit.
FtpPcs == {"ftp_login", "ftp_cwd", "ftp_stor", "ftp_data", "ftp_ack", "ftp_quit"}

CouldNotRetrieve ==
    Resp(500, [error |-> "Workflow completed but could not retrived final image from ComfyUI"])

\* src/main.py:221 and 86-90: the watcher opens its connection.
ws_create_connection(r) ==
    /\ pc[r] = "connect"
    /\ calls' = [calls EXCEPT ![r].create_connection = @ + 1]
    /\ \/ /\ ws' = [ws EXCEPT ![r] = [state |-> "open", clientId |-> client_id[r],
                                      prompt_id |-> queue_response[r].prompt_id]]
          /\ pc' = [pc EXCEPT ![r] = "recv"]
          /\ UNCHANGED <<response, raised>>
       \/ /\ CatchAll(r, "[Errno 111] Connection refused")
          /\ UNCHANGED ws
    /\ UNCHANGED <<env, clock, nextUuid, files, timestamp, upload_response,
                   queue_response, client_id, final_filename,
                   inbox, emitted, received, image_content, fetched, watcher,
                   ftpVars, merged_images, final_images, served>>

\* The generation service pushes a frame to the session of request r, while
\* the watcher has yet to connect or may still receive.  It reaches the
\* watcher only if the watcher's connection is open; a frame sent to a
\* session nobody is connected to is lost.
service_emit_from(r, frames) ==
    /\ pc[r] \in {"connect", "recv", "view"}
    /\ emitted[r] < MaxFrames
    /\ emitted' = [emitted EXCEPT ![r] = @ + 1]
    /\ \E f \in frames :
        IF ws[r].state = "open"
        THEN /\ Len(inbox[r]) < MaxInbox
             /\ inbox' = [inbox EXCEPT ![r] = Append(@, f)]
        ELSE UNCHANGED inbox
    /\ UNCHANGED <<env, clock, nextUuid, reqVars, ws, received, image_content,
                   fetched, watcher, ftpVars, merged_images, final_images, served>>

service_emit(r) == service_emit_from(r, Frames)

\* src/main.py:94-110: ws.recv() returns the next frame and the loop body
\* handles it up to its next blocking call: the next recv, GET /view of the
\* first image, or (on a return or an exception) ws.close() in the finally
\* clause.
ws_recv(r) ==
    /\ pc[r] = "recv"
    /\ inbox[r] # <<>>
    /\ received' = [received EXCEPT ![r] = @ + 1]
    /\ inbox' = [inbox EXCEPT ![r] = Tail(@)]
    /\ LET out == Head(inbox[r])
           act == on_message(out, ws[r].prompt_id)
       IN  CASE act.do = "ignore" ->
                  UNCHANGED <<pc, watcher, calls, fetched>>
             [] act.do = "raise" ->
                  /\ watcher' = [watcher EXCEPT ![r] = Raises(act.arg)]
                  /\ pc' = [pc EXCEPT ![r] = "close"]
                  /\ UNCHANGED <<calls, fetched>>
             [] act.do = "empty" ->
                  /\ watcher' = [watcher EXCEPT ![r] = Returns(None)]
                  /\ pc' = [pc EXCEPT ![r] = "close"]
                  /\ UNCHANGED <<calls, fetched>>
             [] act.do = "fetch" ->
                  /\ calls' = [calls EXCEPT ![r].get_image_from_comfyui = @ + 1]
                  /\ fetched' = [fetched EXCEPT ![r] = Append(@, act.arg)]
                  /\ pc' = [pc EXCEPT ![r] = "view"]
                  /\ UNCHANGED watcher
    /\ UNCHANGED <<env, clock, nextUuid, files, timestamp, upload_response,
                   queue_response, client_id, final_filename, response, raised,
                   ws, emitted, image_content, ftpVars,
                   merged_images, final_images, served>>

\* src/main.py:94: ws.recv() itself raises (the connection was lost).
ws_recv_raises(r) ==
    /\ pc[r] = "recv"
    /\ watcher' = [watcher EXCEPT ![r] = Raises("Connection to remote host was lost.")]
    /\ pc' = [pc EXCEPT ![r] = "close"]
    /\ UNCHANGED <<env, clock, nextUuid, files, timestamp, upload_response,
                   queue_response, client_id, final_filename, response, raised,
                   calls, ws, inbox, emitted, received, image_content, fetched,
                   ftpVars, merged_images, final_images, served>>

\* The output name of the fetch in progress: first_image_data['filename'].
first_image(r) == fetched[r][Len(fetched[r])]

\* src/main.py:106-112: GET /view answers.  With content the watcher goes
\* on to store it; without, the `if` has no else and the loop receives again.
fetch_image_content(r) ==
    /\ pc[r] = "view"
    /\ \E content \in get_image_from_comfyui(first_image(r)) :
        /\ image_content' = [image_content EXCEPT ![r] = content]
        /\ pc' = [pc EXCEPT ![r] = IF Truthy(content) THEN "open" ELSE "recv"]
    /\ UNCHANGED <<env, clock, nextUuid, files, timestamp, upload_response,
                   queue_response, client_id, final_filename, response, raised,
                   calls, ws, inbox, emitted, received, fetched, watcher,
                   ftpVars, merged_images, final_images, served>>

\* src/main.py:113-115: open(final_image_path, 'wb') creates the file or
\* truncates the one that is there, or raises and touches nothing.
open_final_image(r) ==
    /\ pc[r] = "open"
    /\ \/ /\ final_images' = WriteFile(final_images, first_image(r), "")
          /\ pc' = [pc EXCEPT ![r] = "write"]
          /\ UNCHANGED watcher
       \/ /\ watcher' = [watcher EXCEPT ![r] = Raises("[Errno 13] Permission denied")]
          /\ pc' = [pc EXCEPT ![r] = "close"]
          /\ UNCHANGED final_images
    /\ UNCHANGED <<env, clock, nextUuid, files, timestamp, upload_response,
                   queue_response, client_id, final_filename, response, raised,
                   calls, ws, inbox, emitted, received, image_content, fetched,
                   ftpVars, merged_images, served>>

\* What a write that fails half-way leaves in the file.
Fragment == "truncated"

\* src/main.py:116-120: f.write(image_content) stores the bytes and the
\* watcher returns the filename, or the write raises and leaves a fragment
\* or the empty file that open() made.
write_final_image(r) ==
    /\ pc[r] = "write"
    /\ \/ /\ final_images' = StoreContent(final_images, first_image(r), image_content[r])
          /\ watcher' = [watcher EXCEPT ![r] = Returns(first_image(r))]
       \/ /\ \/ final_images' = StoreContent(final_images, first_image(r), Fragment)
             \/ UNCHANGED final_images
          /\ watcher' = [watcher EXCEPT ![r] = Raises("[Errno 28] No space left on device")]
    /\ pc' = [pc EXCEPT ![r] = "close"]
    /\ UNCHANGED <<env, clock, nextUuid, files, timestamp, upload_response,
                   queue_response, client_id, final_filename, response, raised,
                   calls, ws, inbox, emitted, received, image_content, fetched,
                   ftpVars, merged_images, served>>

\* src/main.py:121-122, then 221-226 and 246-258: ws.close() returns and the
\* watcher is left.  A filename goes on to publish, None is answered 500,
\* an exception reaches the catch-all.
watcher_finally(r) ==
    /\ pc[r] = "close"
    /\ ws_close(r)
    /\ CASE watcher[r].exit = "raise" ->
              /\ CatchAll(r, watcher[r].value)
              /\ UNCHANGED final_filename
         [] watcher[r].exit = "return" /\ watcher[r].value = None ->
              /\ Answer(r, CouldNotRetrieve)
              /\ UNCHANGED <<raised, final_filename>>
         [] watcher[r].exit = "return" /\ watcher[r].value # None ->
              /\ final_filename' = [final_filename EXCEPT ![r] = watcher[r].value]
              /\ pc' = [pc EXCEPT ![r] = "publish"]
              /\ UNCHANGED <<response, raised>>
    /\ UNCHANGED <<env, clock, nextUuid, files, timestamp, upload_response,
                   queue_response, client_id, calls, emitted, received,
                   image_content, fetched, watcher,
                   ftpVars, merged_images, final_images, served>>

\* ------------------------------------------------------------ publisher
\* Where the FTP conversation of src/main.py:139-143 can fail.
FtpFailurePoints == {"connect", "login", "cwd", "open", "stor", "storbinary", "quit"}

FtpErrorMessage(point) ==
    CASE point = "connect" -> "[Errno 111] Connection refused"
      [] point = "login" -> "530 Login incorrect."
      [] point = "cwd" -> "550 Failed to change directory."
      [] point = "open" -> "[Errno 13] Permission denied"
      [] point = "stor" -> "553 Could not create file."
      [] point = "storbinary" -> "426 Failure writing network stream."
      [] point = "quit" -> "421 Timeout."

\* A configuration test that forgets the target directory.
Mut_FtpConfigured_no_dir ==
    /\ Truthy(FTP_HOST)
    /\ Truthy(FTP_USER)
    /\ Truthy(FTP_PASS)

\* A configuration test with any() instead of all().
Mut_FtpConfigured_any ==
    \/ Truthy(FTP_HOST)
    \/ Truthy(FTP_USER)
    \/ Truthy(FTP_PASS)
    \/ Truthy(FTP_TARGET_DIR)

\* src/main.py:128-133, `all([...])` over the four settings.
FtpConfigured ==
    /\ Truthy(FTP_HOST)
    /\ Truthy(FTP_USER)
    /\ Truthy(FTP_PASS)
    /\ Truthy(FTP_TARGET_DIR)

\* The success branch without the BASE_PUBLIC_URL test.
Mut_publish_response_no_base_test(success, message, filename) ==
    IF success
    THEN Resp(200, [message |-> "Workflow complete. File uploaded successfully.",
                    final_image_url |-> BASE_PUBLIC_URL \o filename])
    ELSE Resp(500, [message |-> "Workflow completed, but failed to upload image to FTP server.",
                    error |-> "Could not upload the final image via FTP.",
                    final_image_filename |-> filename,
                    ftp_error_details |-> message])

\* The failure branch without the final image's filename.
Mut_publish_response_no_filename(success, message, filename) ==
    IF success
    THEN IF ~Truthy(BASE_PUBLIC_URL)
         THEN Resp(500, [error |-> "BASE_PUBLIC_URL is not set in .env file"])
         ELSE Resp(200, [message |-> "Workflow complete. File uploaded successfully.",
                         final_image_url |-> BASE_PUBLIC_URL \o filename])
    ELSE Resp(500, [message |-> "Workflow completed, but failed to upload image to FTP server.",
                    error |-> "Could not upload the final image via FTP.",
                    ftp_error_details |-> message])

\* A missing BASE_PUBLIC_URL reported with the body of a publish failure.
Mut_publish_response_same_error(success, message, filename) ==
    IF success
    THEN IF ~Truthy(BASE_PUBLIC_URL)
         THEN Resp(500, [message |-> "Workflow completed, but failed to upload image to FTP server.",
                         error |-> "Could not upload the final image via FTP.",
                         final_image_filename |-> filename,
                         ftp_error_details |-> message])
         ELSE Resp(200, [message |-> "Workflow complete. File uploaded successfully.",
                         final_image_url |-> BASE_PUBLIC_URL \o filename])
    ELSE Resp(500, [message |-> "Workflow completed, but failed to upload image to FTP server.",
                    error |-> "Could not upload the final image via FTP.",
                    final_image_filename |-> filename,
                    ftp_error_details |-> message])

\* src/main.py:227-245, the answer of merge_images once publish returned.
publish_response(success, message, filename) ==
    IF success
    THEN IF ~Truthy(BASE_PUBLIC_URL)
         THEN Resp(500, [error |-> "BASE_PUBLIC_URL is not set in .env file"])
         ELSE Resp(200, [message |-> "Workflow complete. File uploaded successfully.",
                         final_image_url |-> BASE_PUBLIC_URL \o filename])
    ELSE Resp(500, [message |-> "Workflow completed, but failed to upload image to FTP server.",
                    error |-> "Could not upload the final image via FTP.",
                    final_image_filename |-> filename,
                    ftp_error_details |-> message])

\* upload_final_image_to_ftp returns (ok, msg) and merge_images answers
\* (src/main.py:146, 149 or 136, then 227-245).
publish_returns(r, ok, msg) ==
    /\ publish' = [publish EXCEPT ![r].success = ok, ![r].message = msg]
    /\ Answer(r, publish_response(ok, msg, final_filename[r]))

\* src/main.py:223-226 and 125-138: publish is called; without a complete
\* configuration it returns at once, otherwise it starts to connect.
upload_final_image_to_ftp(r) ==
    /\ pc[r] = "publish"
    /\ calls' = [calls EXCEPT ![r].upload_final_image_to_ftp = @ + 1]
    /\ IF ~FtpConfigured
       THEN publish_returns(r, FALSE, "FTP configuration is missing. Please check your .env file")
       ELSE /\ pc' = [pc EXCEPT ![r] = "ftp_login"]
            /\ UNCHANGED <<publish, response>>
    /\ UNCHANGED <<env, clock, nextUuid, files, timestamp, upload_response,
                   queue_response, client_id, final_filename, raised, wsVars,
                   ftp, transfer, remote, merged_images, final_images, served>>

\* src/main.py:139, ftplib.FTP(host, user, passwd): connect, then login.
\* A refused login leaves the control connection connected and never quit.
ftp_login(r) ==
    /\ pc[r] = "ftp_login"
    /\ \/ /\ ftp' = [ftp EXCEPT ![r] = "refused"]
          /\ publish_returns(r, FALSE, FtpErrorMessage("connect"))
       \/ /\ ftp' = [ftp EXCEPT ![r] = "connected"]
          /\ publish_returns(r, FALSE, FtpErrorMessage("login"))
       \/ /\ ftp' = [ftp EXCEPT ![r] = "open"]
          /\ pc' = [pc EXCEPT ![r] = "ftp_cwd"]
          /\ UNCHANGED <<publish, response>>
    /\ UNCHANGED <<env, clock, nextUuid, files, timestamp, upload_response,
                   queue_response, client_id, final_filename, raised, calls,
                   wsVars, transfer, remote, merged_images, final_images, served>>

\* src/main.py:140-142: the answer to CWD, then open(file_path, 'rb') and
\* the STOR command is sent.
ftp_cwd(r) ==
    /\ pc[r] = "ftp_cwd"
    /\ \/ \E point \in {"cwd", "open"} :
              publish_returns(r, FALSE, FtpErrorMessage(point))
       \/ /\ pc' = [pc EXCEPT ![r] = "ftp_stor"]
          /\ UNCHANGED <<publish, response>>
    /\ UNCHANGED <<env, clock, nextUuid, files, timestamp, upload_response,
                   queue_response, client_id, final_filename, raised, calls,
                   wsVars, ftp, transfer, remote, merged_images, final_images, served>>

\* src/main.py:142, the answer to STOR: the server refuses, or creates (or
\* truncates) the remote file and waits for the data.
ftp_stor(r) ==
    /\ pc[r] = "ftp_stor"
    /\ \/ /\ publish_returns(r, FALSE, FtpErrorMessage("stor"))
          /\ UNCHANGED remote
       \/ /\ remote' = WriteFile(remote, final_filename[r], "")
          /\ publish' = [publish EXCEPT ![r].stored = "partial"]
          /\ pc' = [pc EXCEPT ![r] = "ftp_data"]
          /\ UNCHANGED response
    /\ UNCHANGED <<env, clock, nextUuid, files, timestamp, upload_response,
                   queue_response, client_id, final_filename, raised, calls,
                   wsVars, ftp, transfer, merged_images, final_images, served>>

\* upload_final_image_to_ftp returns (False, msg) out of the data transfer:
\* the server has not acknowledged the file.
transfer_fails(r) ==
    /\ publish' = [publish EXCEPT ![r] =
                      [success |-> FALSE,
                       message |-> FtpErrorMessage("storbinary"),
                       stored |-> "partial"]]
    /\ Answer(r, publish_response(FALSE, FtpErrorMessage("storbinary"),
                                  final_filename[r]))

\* The server has acknowledged the transfer (226) and QUIT is sent.
transfer_acknowledged(r) ==
    /\ publish' = [publish EXCEPT ![r].stored = "complete"]
    /\ pc' = [pc EXCEPT ![r] = "ftp_quit"]
    /\ UNCHANGED response

\* src/main.py:142, storbinary's loop: fp.read(blocksize), conn.sendall(buf),
\* until read returns nothing.  One step reads from the local file as it is
\* now, from where the last read stopped, and sends what it read: the whole
\* of a small file or the rest of a large one, or a first part of a large
\* one; when nothing is left (the file is empty or has been truncated
\* meanwhile) the loop ends and storbinary waits for the server's answer.
\* A send that breaks ends the transfer.
ftp_data(r) ==
    /\ pc[r] = "ftp_data"
    /\ LET local == final_images[final_filename[r]].content
       IN  \/ /\ transfer_fails(r)
              /\ UNCHANGED transfer
           \/ /\ local = ""
              /\ pc' = [pc EXCEPT ![r] = "ftp_ack"]
              /\ UNCHANGED <<transfer, publish, response>>
           \/ /\ local # ""
              /\ transfer' = [transfer EXCEPT ![r].sent = local]
              /\ pc' = [pc EXCEPT ![r] = "ftp_ack"]
              /\ UNCHANGED <<publish, response>>
           \/ /\ local # ""
              /\ transfer[r].sent = ""
              /\ transfer' = [transfer EXCEPT ![r].sent = Fragment]
              /\ UNCHANGED <<pc, publish, response>>
    /\ UNCHANGED <<env, clock, nextUuid, files, timestamp, upload_response,
                   queue_response, client_id, final_filename, raised, calls,
                   wsVars, ftp, remote, merged_images, final_images, served>>

\* The FTP server takes what was sent on the data connection of request r
\* and stores it in the file that STOR created.
server_receive(r) ==
    /\ pc[r] \in {"ftp_data", "ftp_ack"}
    /\ transfer[r].received # transfer[r].sent
    /\ transfer' = [transfer EXCEPT ![r].received = transfer[r].sent]
    /\ remote' = StoreContent(remote, final_filename[r], transfer[r].sent)
    /\ UNCHANGED <<env, clock, nextUuid, reqVars, wsVars, ftp, publish,
                   merged_images, final_images, served>>

\* src/main.py:142, storbinary's voidresp(): the server has taken all that
\* was sent and acknowledges it (226), or the transfer is reported broken,
\* before or after the data arrived.
ftp_ack(r) ==
    /\ pc[r] = "ftp_ack"
    /\ \/ transfer_fails(r)
       \/ /\ transfer[r].received = transfer[r].sent
          /\ transfer_acknowledged(r)
    /\ UNCHANGED <<env, clock, nextUuid, files, timestamp, upload_response,
                   queue_response, client_id, final_filename, raised, calls,
                   wsVars, ftp, transfer, remote, merged_images, final_images,
                   served>>

\* src/main.py:143-146: the answer to QUIT.  Only here is the session
\* ended; every earlier failure returned with the session as it was.
ftp_quit(r) ==
    /\ pc[r] = "ftp_quit"
    /\ \/ /\ publish_returns(r, FALSE, FtpErrorMessage("quit"))
          /\ UNCHANGED ftp
       \/ /\ ftp' = [ftp EXCEPT ![r] = "quit"]
          /\ publish_returns(r, TRUE, "File '" \o final_filename[r]
                                          \o "' uploaded to FTP successfully!")
    /\ UNCHANGED <<env, clock, nextUuid, files, timestamp, upload_response,
                   queue_response, client_id, final_filename, raised, calls,
                   wsVars, transfer, remote, merged_images, final_images, served>>

\* ------------------------------------------------------ GET /final_image
RequestedNames == OutNames

\* src/main.py:260-267: the named file of FINAL_IMAGES_DIR, or 404.
get_final_image(filename) ==
    /\ served' = IF filename \in DOMAIN final_images
                 THEN [filename |-> filename, status |-> 200,
                       content |-> final_images[filename].content]
                 ELSE [filename |-> filename, status |-> 404, content |-> None]
    /\ UNCHANGED <<env, clock, nextUuid, reqVars, wsVars, ftpVars,
                   merged_images, final_images>>

\* -------------------------------------------------------- specification
Step(r) ==
    \/ merge_images_validate(r)
    \/ merge_images_composite(r)
    \/ merge_images_save(r)
    \/ upload_image_to_comfyui(r)
    \/ merge_images_load_workflow(r)
    \/ queue_prompt(r)
    \/ ws_create_connection(r)
    \/ service_emit(r)
    \/ ws_recv(r)
    \/ ws_recv_raises(r)
    \/ fetch_image_content(r)
    \/ open_final_image(r)
    \/ write_final_image(r)
    \/ watcher_finally(r)
    \/ upload_final_image_to_ftp(r)
    \/ ftp_login(r)
    \/ ftp_cwd(r)
    \/ ftp_stor(r)
    \/ ftp_data(r)
    \/ server_receive(r)
    \/ ftp_ack(r)
    \/ ftp_quit(r)

\* One inbound request.
Next ==
    \/ Tick
    \/ \E r \in Solo : Step(r)
    \/ \E filename \in RequestedNames : get_final_image(filename)

Spec == Init /\ [][Next]_vars

TypeOK ==
    /\ clock \in 0..MaxClock
    /\ \A r \in Reqs :
        /\ pc[r] \in {"idle", "composite", "save", "upload", "workflow", "queue",
                      "connect", "publish", "done"} \cup WatcherPcs \cup FtpPcs
        /\ ws[r].state \in {"none", "open", "closed"}
        /\ ftp[r] \in {"none", "refused", "connected", "open", "quit"}
        /\ publish[r].stored \in {"no", "partial", "complete"}
        /\ transfer[r].received \in {"", transfer[r].sent, Fragment}
        /\ watcher[r].exit \in {"none", "return", "raise"}
        /\ Len(inbox[r]) <= MaxInbox
        /\ emitted[r] <= MaxFrames

\* ================================================================ claims
MissingFilesResponse == Resp(400, [error |-> "Missing one or both files in the request"])
UploadFailedResponse == Resp(500, [error |-> "Failed to upload merge image to ComfyUI"])
QueueFailedResponse == Resp(500, [error |-> "Failed to queue prompt in ComfyUI"])

\* The stage results a later stage depends on.
AssetSubmitted(r) ==
    /\ calls[r].upload_image_to_comfyui > 0
    /\ upload_response[r].kind = "dict"
    /\ "name" \in upload_response[r].keys
JobSubmitted(r) ==
    /\ calls[r].queue_prompt > 0
    /\ queue_response[r].kind = "dict"
    /\ "prompt_id" \in queue_response[r].keys
WatcherReturnedFilename(r) ==
    /\ calls[r].create_connection > 0
    /\ final_filename[r] \in OutNames
\* No stage of the pipeline has run for request r.
NoStageRan(r) ==
    /\ calls[r] = NoCalls
    /\ timestamp[r] = None
    /\ ws[r].state = "none"
    /\ ftp[r] = "none"
    /\ fetched[r] = <<>>
    /\ final_filename[r] = None

\* C1: every stage of merge_images starts only after the previous stage
\* returned a non-error result: queue_prompt is invoked only if the upload
\* response contains 'name', the watcher connection is opened only if the
\* queue response contains 'prompt_id', and upload_final_image_to_ftp is
\* invoked only if the watcher returned a filename.
C1_StageOrder ==
    \A r \in Reqs :
        /\ calls[r].queue_prompt > 0 => AssetSubmitted(r)
        /\ calls[r].create_connection > 0 => JobSubmitted(r)
        /\ calls[r].upload_final_image_to_ftp > 0 => WatcherReturnedFilename(r)

C1_Witness ==
    \E r \in Reqs :
        /\ calls[r].upload_final_image_to_ftp = 1
        /\ AssetSubmitted(r) /\ JobSubmitted(r) /\ WatcherReturnedFilename(r)

\* C2: a request is answered 200 only if submit-asset, submit-job, the
\* watch and publish all succeeded and BASE_PUBLIC_URL is set; then
\* final_image_url is BASE_PUBLIC_URL followed by the filename the watcher
\* returned, and a file of that name is in the local final-image directory
\* and on the remote server.
C2_SuccessResponse ==
    \A r \in Reqs :
        response[r].status = 200 =>
            /\ AssetSubmitted(r) /\ JobSubmitted(r) /\ WatcherReturnedFilename(r)
            /\ publish[r].success
            /\ BASE_PUBLIC_URL # ""
            /\ final_filename[r] = fetched[r][Len(fetched[r])]
            /\ response[r].body.final_image_url = BASE_PUBLIC_URL \o final_filename[r]
            /\ final_filename[r] \in DOMAIN final_images
            /\ final_images[final_filename[r]].content = ServiceBytes(final_filename[r])
            /\ final_filename[r] \in DOMAIN remote
            /\ remote[final_filename[r]].content = ServiceBytes(final_filename[r])

C2_Witness ==
    \E r \in Reqs :
        /\ response[r].status = 200
        /\ response[r].body.final_image_url = "https://example.org/img/out_b.png"

\* C3: a request without foreground_file or background_file is answered
\* 400 "Missing one or both files in the request", one with an empty
\* filename is answered 400, and in both cases no pipeline stage runs.
C3_Validation ==
    \A r \in Reqs :
        pc[r] # "idle" =>
            /\ (files[r].foreground_file = None \/ files[r].background_file = None)
                  => response[r] = MissingFilesResponse /\ NoStageRan(r)
            /\ (files[r].foreground_file = "" \/ files[r].background_file = "")
                  => response[r].status = 400 /\ NoStageRan(r)

C3_Witness ==
    \E r \in Reqs :
        /\ files[r].foreground_file = "photo.png"
        /\ files[r].background_file = None
        /\ response[r] = MissingFilesResponse

\* --------------------------------------------------------------- watcher
\* The frame that the step under consideration receives for request r.
Receives(r) == pc[r] = "recv" /\ received'[r] = received[r] + 1
ReceivedFrame(r) == Head(inbox[r])

\* A text frame of type 'executed' whose data.prompt_id is the awaited id.
Significant(f, prompt_id) ==
    /\ f.text /\ f.json
    /\ "type" \in f.keys /\ f.type = "executed"
    /\ "prompt_id" \in f.keys /\ f.prompt_id = prompt_id

\* A frame the loop can read: a binary frame, or a JSON text frame that has
\* a 'type' and, when the type is 'executed', a data.prompt_id.
WellFormed(f) ==
    \/ ~f.text
    \/ /\ f.json
       /\ "type" \in f.keys
       /\ f.type = "executed" => "prompt_id" \in f.keys

\* The watcher of r is still blocked in the receive loop after the step and
\* the step fetched nothing and wrote nothing.
StillWaiting(r) ==
    /\ pc'[r] = "recv"
    /\ ws'[r].state = "open"
    /\ calls'[r] = calls[r]
    /\ fetched'[r] = fetched[r]
    /\ final_images' = final_images
    /\ response'[r] = NoResp

\* C4 (as stated): no frame other than a text frame of type 'executed' for
\* the awaited job id terminates the wait; after it the watcher is still
\* blocked, has fetched nothing and has written nothing.
C4_AnyOtherFrameKeepsWaiting ==
    [][\A r \in Reqs :
          (Receives(r) /\ ~Significant(ReceivedFrame(r), ws[r].prompt_id))
              => StillWaiting(r)]_vars

\* The step is the watcher of r leaving through its finally clause.
LeavesWatcher(r) == pc[r] = "close" /\ pc'[r] # "close"

\* C4 (amended): a binary frame, and a JSON text frame that carries a 'type'
\* (and a data.prompt_id when the type is 'executed') and is not an
\* 'executed' frame for the awaited job id, never terminates the wait; a
\* text frame that is not JSON or lacks those fields raises instead: the
\* loop is left, the connection is closed and the catch-all answers.
C4_WellFormedOtherFrameKeepsWaiting ==
    [][\A r \in Reqs :
          /\ (Receives(r) /\ WellFormed(ReceivedFrame(r))
                 /\ ~Significant(ReceivedFrame(r), ws[r].prompt_id))
                => StillWaiting(r)
          /\ (Receives(r) /\ ~WellFormed(ReceivedFrame(r)))
                => (pc'[r] = "close" /\ watcher'[r].exit = "raise")
          /\ (LeavesWatcher(r) /\ watcher[r].exit = "raise")
                => (pc'[r] = "done" /\ raised'[r] = watcher[r].value
                      /\ ws'[r].state = "closed")]_vars

\* Two frames were received, neither ended the wait nor caused a fetch, and
\* the watcher is still blocked on its open connection.
C4_Witness ==
    \E r \in Reqs :
        /\ pc[r] = "recv"
        /\ received[r] = 2
        /\ ws[r].state = "open"
        /\ calls[r].get_image_from_comfyui = 0
        /\ final_images = EmptyDir

\* A matching 'executed' frame with an empty image list.
EmptyCompletion(f, prompt_id) ==
    /\ Significant(f, prompt_id)
    /\ "images" \in f.keys
    /\ f.images = <<>>

\* C5: on an 'executed' frame for the awaited job whose image list is empty
\* the watcher returns None without raising and without a fetch-output
\* call, and merge_images answers 500 'could not retrieve final image'
\* without invoking publish.
C5_EmptyOutput ==
    [][\A r \in Reqs :
          /\ (Receives(r) /\ EmptyCompletion(ReceivedFrame(r), ws[r].prompt_id)) =>
                /\ watcher'[r] = Returns(None)
                /\ pc'[r] = "close"
                /\ calls'[r] = calls[r]
                /\ fetched'[r] = fetched[r]
                /\ final_images' = final_images
          /\ (LeavesWatcher(r) /\ watcher[r] = Returns(None)) =>
                /\ final_filename'[r] = None
                /\ raised'[r] = None
                /\ calls'[r] = calls[r]
                /\ pc'[r] = "done"
                /\ response'[r] = CouldNotRetrieve
                /\ calls'[r].upload_final_image_to_ftp = 0
                /\ ftp'[r] = "none"]_vars

C5_Witness ==
    \E r \in Reqs :
        /\ response[r] = CouldNotRetrieve
        /\ received[r] > 0
        /\ raised[r] = None
        /\ calls[r].upload_final_image_to_ftp = 0

\* The watcher call of r has ended (returned or raised).
WatcherEnded(r) ==
    /\ calls[r].create_connection > 0
    /\ pc[r] \notin {"connect"} \cup WatcherPcs

\* C6: every connection the watcher opens is closed by the time the watcher
\* call ends, on every exit path.
C6_ConnectionClosed ==
    \A r \in Reqs : WatcherEnded(r) => ws[r].state # "open"

\* The watcher ended by an exception raised while parsing a frame, with its
\* connection closed.
C6_Witness ==
    \E r \in Reqs :
        /\ WatcherEnded(r)
        /\ ws[r].state = "closed"
        /\ raised[r] = "'type'"

\* ------------------------------------------------------------- publishing
\* upload_final_image_to_ftp has returned for request r, with ok = false.
PublishReturned(r) ==
    /\ calls[r].upload_final_image_to_ftp > 0
    /\ pc[r] = "done"
PublishFailed(r) ==
    /\ PublishReturned(r)
    /\ ~publish[r].success

\* C7: when the generation stages succeed and publish returns ok=false, the
\* answer is 500 with final_image_filename (the watcher's filename) and
\* ftp_error_details (the publisher's message), the final image is still in
\* the local final-image directory, and GET /final_image/<filename> then
\* returns it.
C7_PublishFailureAnswer ==
    \A r \in Reqs :
        PublishFailed(r) =>
            /\ response[r].status = 500
            /\ "final_image_filename" \in DOMAIN response[r].body
            /\ response[r].body.final_image_filename = final_filename[r]
            /\ final_filename[r] \in OutNames
            /\ "ftp_error_details" \in DOMAIN response[r].body
            /\ response[r].body.ftp_error_details = publish[r].message
            /\ final_filename[r] \in DOMAIN final_images

C7_PublishFailure ==
    /\ []C7_PublishFailureAnswer
    /\ [][\A r \in Reqs :
            (PublishFailed(r) /\ served' # served /\ served'.filename = final_filename[r])
                => /\ served'.status = 200
                   /\ served'.content = ServiceBytes(final_filename[r])]_vars

C7_Witness ==
    \E r \in Reqs :
        /\ PublishFailed(r)
        /\ publish[r].message = "426 Failure writing network stream."
        /\ served.filename = final_filename[r]
        /\ served.status = 200

\* ------------------------------------------------------ failures, retries
\* The last fetch-output call of r has returned, with a transport failure.
FetchFailed(r) ==
    /\ calls[r].get_image_from_comfyui > 0
    /\ pc[r] # "view"
    /\ image_content[r] = None

\* C8 (as stated): a network failure on any call to the generation service
\* ends the request at once with the stage's 500: a failed submit-asset
\* gives 'Failed to upload merge image', a failed submit-job 'Failed to
\* queue prompt', and a failed fetch-output makes the watcher return no
\* filename, answered 500 'could not retrieve final image'.
C8_TransportFailureEndsRequest ==
    \A r \in Reqs :
        /\ (calls[r].upload_image_to_comfyui > 0 /\ upload_response[r] = NoneResponse)
              => (pc[r] = "done" /\ response[r] = UploadFailedResponse)
        /\ (calls[r].queue_prompt > 0 /\ queue_response[r] = NoneResponse)
              => (pc[r] = "done" /\ response[r] = QueueFailedResponse)
        /\ FetchFailed(r)
              => /\ pc[r] \in {"close", "done"}
                 /\ final_filename[r] = None
                 /\ pc[r] = "close" => watcher[r] = Returns(None)
                 /\ pc[r] = "done" => response[r] = CouldNotRetrieve

\* C9 (as stated): within one request each external operation is invoked at
\* most once.
C9_NoStageRetried ==
    \A r \in Reqs :
        /\ calls[r].upload_image_to_comfyui <= 1
        /\ calls[r].queue_prompt <= 1
        /\ calls[r].create_connection <= 1
        /\ calls[r].get_image_from_comfyui <= 1
        /\ calls[r].upload_final_image_to_ftp <= 1

\* C10: an exception raised in any stage after validation is answered by
\* the catch-all handler with status 500 and the exception's message in
\* 'details'; every request that has ended has an answer.
C10_CatchAll ==
    \A r \in Reqs :
        /\ raised[r] # None =>
              /\ pc[r] = "done"
              /\ response[r].status = 500
              /\ "details" \in DOMAIN response[r].body
              /\ response[r].body.details = raised[r]
        /\ pc[r] = "done" => response[r].status \in {200, 400, 500}

\* The write of the final file raised and was answered by the catch-all.
C10_Witness ==
    \E r \in Reqs :
        /\ raised[r] = "[Errno 28] No space left on device"
        /\ response[r] = Resp(500, [error |-> "An internal server error occurred ",
                                    details |-> "[Errno 28] No space left on device"])

\* ------------------------------------------------- the pipeline alone
\* One inbound POST /merge_images, without the GET /final_image route.
NextPipeline ==
    \/ Tick
    \/ \E r \in Solo : Step(r)

SpecPipeline == Init /\ [][NextPipeline]_vars

\* ------------------------------------------------- publisher, fail-fast
FtpConfigMissingMessage == "FTP configuration is missing. Please check your .env file"

\* All four FTP settings are present and non-empty.
AllFtpSettingsPresent ==
    /\ FTP_HOST \notin {None, ""}
    /\ FTP_USER \notin {None, ""}
    /\ FTP_PASS \notin {None, ""}
    /\ FTP_TARGET_DIR \notin {None, ""}

\* C11: upload_final_image_to_ftp returns (False, message) without opening
\* an FTP session or making a network call whenever one of FTP_HOST,
\* FTP_USER, FTP_PASS, FTP_TARGET_DIR is absent or empty; a session is
\* attempted only when all four are present.
C11_FailFast ==
    \A r \in Reqs :
        /\ (calls[r].upload_final_image_to_ftp > 0 /\ ~AllFtpSettingsPresent) =>
              /\ ~publish[r].success
              /\ publish[r].message = FtpConfigMissingMessage
              /\ publish[r].stored = "no"
              /\ ftp[r] = "none"
              /\ pc[r] = "done"
        /\ (ftp[r] # "none" \/ pc[r] \in FtpPcs) => AllFtpSettingsPresent

\* Publish was called with only the target directory missing.
C11_Witness ==
    \E r \in Reqs :
        /\ calls[r].upload_final_image_to_ftp = 1
        /\ FTP_HOST # "" /\ FTP_USER # "" /\ FTP_PASS # ""
        /\ FTP_TARGET_DIR = ""
        /\ publish[r] = [success |-> FALSE, message |-> FtpConfigMissingMessage,
                         stored |-> "no"]

\* ------------------------------------------------- distinct stage errors
\* The stage at which request r failed, from what its stages returned:
\*   a submit-asset, b submit-job, c no filename from the watcher,
\*   d publish, e BASE_PUBLIC_URL absent, f an exception (catch-all).
FailedStage(r) ==
    IF raised[r] # None THEN "f"
    ELSE IF calls[r].upload_image_to_comfyui > 0 /\ ~AssetSubmitted(r) THEN "a"
    ELSE IF calls[r].queue_prompt > 0 /\ ~JobSubmitted(r) THEN "b"
    ELSE IF calls[r].create_connection > 0 /\ pc[r] = "done"
            /\ final_filename[r] = None THEN "c"
    ELSE IF PublishFailed(r) THEN "d"
    ELSE IF publish[r].success /\ BASE_PUBLIC_URL = "" THEN "e"
    ELSE "none"

StageError ==
    [a |-> "Failed to upload merge image to ComfyUI",
     b |-> "Failed to queue prompt in ComfyUI",
     c |-> "Workflow completed but could not retrived final image from ComfyUI",
     d |-> "Could not upload the final image via FTP.",
     e |-> "BASE_PUBLIC_URL is not set in .env file",
     f |-> "An internal server error occurred "]

\* C12: the answers of the six failing stages are pairwise different, all
\* have status 500, and each is produced only by its own stage's failure.
C12_DistinctStageErrors ==
    /\ Cardinality({StageError[k] : k \in DOMAIN StageError}) = 6
    /\ \A r \in Reqs :
        pc[r] = "done" =>
            /\ FailedStage(r) # "none" =>
                  /\ response[r].status = 500
                  /\ response[r].body.error = StageError[FailedStage(r)]
            /\ response[r].status = 500 => FailedStage(r) # "none"
            /\ ("ftp_error_details" \in DOMAIN response[r].body) = (FailedStage(r) = "d")
            /\ ("details" \in DOMAIN response[r].body) = (FailedStage(r) = "f")

\* Publish succeeded and the request failed on the absent BASE_PUBLIC_URL.
C12_Witness ==
    \E r \in Reqs :
        /\ publish[r].success
        /\ FailedStage(r) = "e"
        /\ response[r] = Resp(500, [error |-> "BASE_PUBLIC_URL is not set in .env file"])

\* ------------------------------------------------- first-wins selection
\* A matching 'executed' frame with at least one image descriptor.
CompletionWithImages(f, prompt_id) ==
    /\ Significant(f, prompt_id)
    /\ "images" \in f.keys
    /\ f.images # <<>>

\* The step fetches the descriptor at index 0 of the received frame and
\* no other.
FetchesFirstOnly(r) ==
    /\ fetched'[r] = Append(fetched[r], ReceivedFrame(r).images[1])
    /\ calls'[r].get_image_from_comfyui = calls[r].get_image_from_comfyui + 1
    /\ pc'[r] = "view"

\* The watcher of r returned the first descriptor's filename and the bytes
\* of that output are stored under it.
PersistedAndReturnedFirst(r) ==
    LET first == fetched[r][1]
    IN  /\ final_filename[r] = first
        /\ first \in DOMAIN final_images
        /\ final_images[first].content = ServiceBytes(first)

\* C15 (as stated): on a matching 'executed' frame with n >= 1 descriptors
\* the watcher fetches only the descriptor at index 0, persists the bytes
\* under that descriptor's filename and returns exactly that filename.
C15_FirstWinsAlways ==
    /\ [](\A r \in Reqs :
            (WatcherEnded(r) /\ fetched[r] # <<>>) => PersistedAndReturnedFirst(r))
    /\ [][\A r \in Reqs :
            (Receives(r) /\ CompletionWithImages(ReceivedFrame(r), ws[r].prompt_id))
                => FetchesFirstOnly(r)]_vars

\* A returned filename names a file written during this watch: it is the
\* last name fetched, and the file holds the bytes fetched for it.
ReturnedFileWritten ==
    \A r \in Reqs :
        final_filename[r] # None =>
            /\ fetched[r] # <<>>
            /\ final_filename[r] = fetched[r][Len(fetched[r])]
            /\ Truthy(image_content[r])
            /\ raised[r] = None
            /\ final_filename[r] \in DOMAIN final_images
            /\ final_images[final_filename[r]].writes >= 1
            /\ final_images[final_filename[r]].content = image_content[r]

\* C15 (amended): the watcher fetches only the descriptor at index 0; it
\* persists and returns that filename when the fetch returned non-empty
\* bytes and the write succeeded; when the fetch returned nothing it writes
\* nothing, returns nothing and goes on waiting; when open or the write
\* raised it returns nothing.  A returned filename names a file written in
\* this watch.
C15_FirstWins ==
    /\ []ReturnedFileWritten
    /\ [][\A r \in Reqs :
            /\ (Receives(r) /\ CompletionWithImages(ReceivedFrame(r), ws[r].prompt_id))
                  => FetchesFirstOnly(r)
            /\ (pc[r] = "view" /\ pc'[r] # "view") =>
                  /\ final_images' = final_images
                  /\ final_filename'[r] = None
                  /\ pc'[r] = IF Truthy(image_content'[r]) THEN "open" ELSE "recv"
            /\ (pc[r] = "write" /\ watcher'[r].exit = "return") =>
                  /\ watcher'[r].value = first_image(r)
                  /\ final_images'[first_image(r)].content = ServiceBytes(first_image(r))
            /\ (LeavesWatcher(r) /\ watcher[r].exit = "return" /\ watcher[r].value # None)
                  => (final_filename'[r] = first_image(r) /\ pc'[r] = "publish")
            /\ (LeavesWatcher(r) /\ watcher[r].exit = "raise")
                  => (final_filename'[r] = None /\ pc'[r] = "done")]_vars

\* The frame listed out_b.png before out_a.png: only out_b.png was fetched,
\* written and returned.
C15_Witness ==
    \E r \in Reqs :
        /\ fetched[r] = <<"out_b.png">>
        /\ final_filename[r] = "out_b.png"
        /\ DOMAIN final_images = {"out_b.png"}
        /\ final_images["out_b.png"].content = ServiceBytes("out_b.png")

\* ---------------------------------------------------------- FTP session
\* C17 (as stated): whenever upload_final_image_to_ftp has established an
\* FTP session, the session is quit by the time the function returns, on
\* success and when cwd, opening the local file or the transfer raises.
C17_SessionTerminated ==
    \A r \in Reqs :
        (calls[r].upload_final_image_to_ftp > 0 /\ pc[r] = "done") => ftp[r] # "open"

\* ------------------------------------------------- remote modifications
\* C19 (as stated): for every request answered with a status other than
\* 200, no file has been transferred to the remote server in that request.
C19_RemoteOnlyOnSuccess ==
    \A r \in Reqs :
        (pc[r] = "done" /\ response[r].status # 200) => publish[r].stored = "no"

\* C19 (amended): a request answered with a status other than 200 has
\* transferred nothing, except when publish ran with a complete FTP
\* configuration and either succeeded while BASE_PUBLIC_URL is absent, or
\* failed during the data transfer or at quit; a file on the server is
\* created or changed only by the publish stage of a request, under the
\* filename its watcher returned.
C19_RemoteOnlyAfterPublish ==
    /\ [][\A n \in DOMAIN remote' :
            (n \notin DOMAIN remote \/ remote'[n] # remote[n]) =>
                \E r \in Reqs : /\ pc[r] \in FtpPcs
                                /\ AllFtpSettingsPresent
                                /\ final_filename[r] = n
                                /\ publish'[r].stored # "no"]_vars
    /\ [](\A r \in Reqs :
        /\ calls[r].upload_final_image_to_ftp = 0 => publish[r].stored = "no"
        /\ (pc[r] = "done" /\ response[r].status # 200 /\ publish[r].stored # "no") =>
              /\ calls[r].upload_final_image_to_ftp = 1
              /\ AllFtpSettingsPresent
              /\ ftp[r] \in {"open", "quit"}
              /\ \/ /\ publish[r].success
                    /\ publish[r].stored = "complete"
                    /\ BASE_PUBLIC_URL = ""
                 \/ /\ ~publish[r].success
                    /\ publish[r].message \in {"426 Failure writing network stream.",
                                               "421 Timeout."})

\* Answered 500 for the absent BASE_PUBLIC_URL after a complete transfer.
C19_Witness ==
    \E r \in Reqs :
        /\ response[r].status = 500
        /\ publish[r].success
        /\ publish[r].stored = "complete"
        /\ final_filename[r] \in DOMAIN remote
        /\ remote[final_filename[r]].writes > 0
        /\ remote[final_filename[r]].content = ServiceBytes(final_filename[r])

\* ---------------------------------------------------- concurrent requests
\* Two inbound requests whose steps interleave, with the FTP server and
\* BASE_PUBLIC_URL configured.
InitConc ==
    /\ Init
    /\ FtpConfigured
    /\ Truthy(BASE_PUBLIC_URL)

\* The frames the service emits in the concurrent runs: one event per
\* request, the completion of either job with one output image.
ConcFrames ==
    { Frame(TRUE, TRUE, {"type", "prompt_id", "images"}, "executed", p, <<"out_a.png">>) :
        p \in PromptIds }

StepConc(r) ==
    \/ merge_images_validate(r)
    \/ merge_images_composite(r)
    \/ merge_images_save(r)
    \/ upload_image_to_comfyui(r)
    \/ merge_images_load_workflow(r)
    \/ queue_prompt(r)
    \/ ws_create_connection(r)
    \/ emitted[r] = 0 /\ service_emit_from(r, ConcFrames)
    \/ ws_recv(r)
    \/ ws_recv_raises(r)
    \/ fetch_image_content(r)
    \/ open_final_image(r)
    \/ write_final_image(r)
    \/ watcher_finally(r)
    \/ upload_final_image_to_ftp(r)
    \/ ftp_login(r)
    \/ ftp_cwd(r)
    \/ ftp_stor(r)
    \/ ftp_data(r)
    \/ server_receive(r)
    \/ ftp_ack(r)
    \/ ftp_quit(r)

NextConc ==
    \/ Tick
    \/ \E r \in Reqs : StepConc(r)

SpecConc == InitConc /\ [][NextConc]_vars

\* One inbound request with every sequence of frames the service can send,
\* the FTP server and BASE_PUBLIC_URL configured: the watcher's inputs in
\* full.
SpecWatch == InitConc /\ [][NextPipeline]_vars

\* One inbound request and the GET /final_image route, under every
\* configuration, the service sending one completion event.
NextServe ==
    \/ Tick
    \/ \E r \in Solo : StepConc(r)
    \/ \E filename \in RequestedNames : get_final_image(filename)

SpecServe == Init /\ [][NextServe]_vars

\* One inbound request under every configuration, the service sending one
\* frame, any of those it can send.
NextPublish ==
    \/ Tick
    \/ \E r \in Solo : StepConc(r)
    \/ \E r \in Solo : emitted[r] = 0 /\ service_emit_from(r, Frames)

SpecPublish == Init /\ [][NextPublish]_vars


\* Request r has been received and not yet answered.
InFlight(r) == pc[r] \notin {"idle", "done"}

\* C13 (as stated): for any two requests in flight at the same time, their
\* composite filenames, their output-name prefixes and the final-image
\* filenames they write are pairwise distinct.
C13_NoFilenameCollision ==
    \A r1 \in Reqs, r2 \in Reqs :
        (r1 # r2 /\ InFlight(r1) /\ InFlight(r2)) =>
            /\ (timestamp[r1] # None /\ timestamp[r2] # None) =>
                  /\ merged_filename(r1) # merged_filename(r2)
                  /\ output_prefix(r1) # output_prefix(r2)
            /\ (final_filename[r1] # None /\ final_filename[r2] # None) =>
                  final_filename[r1] # final_filename[r2]

\* C14 (as stated): every file of the composite directory and of the
\* final-image directory is written at most once.
C14_WriteOnce ==
    /\ \A n \in DOMAIN merged_images : merged_images[n].writes <= 1
    /\ \A n \in DOMAIN final_images : final_images[n].writes <= 1

\* C16: the session id sent with submit-job is the clientId of the watcher
\* connection, the job id the watcher waits for is the prompt_id that
\* submit-job returned, and the session ids of different requests differ.
C16_Correlation ==
    /\ \A r \in Reqs :
        ws[r].state # "none" =>
            /\ JobSubmitted(r)
            /\ ws[r].clientId = client_id[r]
            /\ ws[r].prompt_id = queue_response[r].prompt_id
    /\ \A r1 \in Reqs, r2 \in Reqs :
        (r1 # r2 /\ calls[r1].queue_prompt > 0 /\ calls[r2].queue_prompt > 0)
            => client_id[r1] # client_id[r2]

\* Both requests watch at the same time, each on its own session id, for
\* the same job id value.
C16_Witness ==
    /\ \A r \in Reqs : ws[r].state = "open" /\ ws[r].clientId = client_id[r]
    /\ client_id[1] # client_id[2]
    /\ ws[1].prompt_id = "p2"
    /\ ws[2].prompt_id = "p1"

\* ------------------------------------------------------ completion, live
\* The one completion event of the job of request r: 'executed' for the
\* prompt_id that submit-job returned, with one image descriptor.
CompletionEvent(r) ==
    Frame(TRUE, TRUE, {"type", "prompt_id", "images"}, "executed",
          queue_response[r].prompt_id, <<"out_a.png">>)

\* The service emits that event, once, at any time after the submission.
emit_completion(r) ==
    /\ emitted[r] = 0
    /\ service_emit_from(r, {CompletionEvent(r)})

\* The steps of merge_images in a run where every stage succeeds.
StepLive(r) ==
    \/ merge_images_validate(r) /\ pc'[r] = "composite"
    \/ merge_images_composite(r) /\ pc'[r] = "save"
    \/ merge_images_save(r) /\ pc'[r] = "upload"
    \/ upload_image_to_comfyui(r) /\ pc'[r] = "workflow"
    \/ merge_images_load_workflow(r) /\ pc'[r] = "queue"
    \/ queue_prompt(r) /\ pc'[r] = "connect"
    \/ ws_create_connection(r) /\ pc'[r] = "recv"
    \/ ws_recv(r) /\ pc'[r] = "view"
    \/ fetch_image_content(r) /\ pc'[r] = "open"
    \/ open_final_image(r) /\ pc'[r] = "write"
    \/ write_final_image(r) /\ watcher'[r].exit = "return"
    \/ watcher_finally(r)
    \/ upload_final_image_to_ftp(r)
    \/ ftp_login(r) /\ pc'[r] = "ftp_cwd"
    \/ ftp_cwd(r) /\ pc'[r] = "ftp_stor"
    \/ ftp_stor(r) /\ pc'[r] = "ftp_data"
    \/ ftp_data(r) /\ pc'[r] # "done"
    \/ server_receive(r)
    \/ ftp_ack(r) /\ pc'[r] = "ftp_quit"
    \/ ftp_quit(r) /\ publish'[r].success

NextLive ==
    \/ Tick
    \/ \E r \in Reqs : StepLive(r)
    \/ \E r \in Reqs : emit_completion(r)

\* Every request thread keeps running and the service does emit the event.
SpecLive ==
    /\ InitConc
    /\ [][NextLive]_vars
    /\ \A r \in Reqs : WF_vars(StepLive(r))
    /\ \A r \in Reqs : WF_vars(emit_completion(r))

\* C18 (as stated): once submit-job succeeded and the service emits the one
\* 'executed' event of the job, at whatever time after the submission, the
\* watcher eventually returns the filename and the request is answered.
C18_CompletionNotMissed ==
    \A r \in Reqs :
        JobSubmitted(r) ~>
            (pc[r] = "done" /\ final_filename[r] = "out_a.png"
                /\ response[r].status = 200)

====
